---- MODULE Spec2Model ----
(***************************************************************************)
(* plotshpcreate (uastools/plotshpcreate.py): one invocation of the        *)
(* function, stage by stage.  The arguments are fixed by Init; every       *)
(* action is one block of the function body, in source order.              *)
(*                                                                         *)
(* Numbers.  Spacings, buffers and the stagger offset are given in tenths  *)
(* of the chosen unit (rowspc = 25 is 2.5).  A length in metres is held    *)
(* as an integer count of 1/32810 m, so that "x / 3.281" is exact: a       *)
(* tenth of a foot is 1000 counts, a tenth of a metre 3281 counts.         *)
(* The AB lines are Pythagorean, so cos(Theta) and sin(Theta) are the      *)
(* rationals c/h and s/h; rotated coordinates are held multiplied by h.    *)
(***************************************************************************)
EXTENDS Integers, Sequences, FiniteSets, TLC

\* ---------------------------------------------------------------- bounds
MaxRange == 3
MaxRow == 4
MaxNRowPlot == 4
MaxSubset == 2
MaxPass == 4

\* ------------------------------------------------------ program constants
\* 1 m = 3.281 ft, in thousandths
FeetPerMeter == 3281

None == "None"
required_cols == {"Plot", "Range", "Row", "Barcode"}

\* ------------------------------------------------------------- arithmetic
Abs(x) == IF x < 0 THEN -x ELSE x

\* np.ceil(a / b) for integers a and b > 0
CeilDiv(a, b) == -((-a) \div b)

\* the h with h*h = n (n a perfect square)
ISqrt(n) == CHOOSE h \in 0..n : h * h = n

Range(s) == {s[i] : i \in DOMAIN s}

SetMin(S) == CHOOSE x \in S : \A y \in S : x <= y

SetMax(S) == CHOOSE x \in S : \A y \in S : x >= y

\* the subsequence of s at the positions where keep is TRUE (boolean mask)
RECURSIVE MaskFrom(_, _, _)
MaskFrom(s, keep, i) ==
  IF i > Len(s) THEN <<>>
  ELSE (IF keep[i] THEN <<s[i]>> ELSE <<>>) \o MaskFrom(s, keep, i + 1)

Mask(s, keep) == MaskFrom(s, keep, 1)

Reverse(s) == [i \in 1..Len(s) |-> s[Len(s) + 1 - i]]

\* (Plot, Row) lexicographic order: sort_values(['Plot', 'Row'])
PlotRowLess(x, y) == x.Plot < y.Plot \/ (x.Plot = y.Plot /\ x.Row < y.Row)

\* insertion of record x into the sorted sequence s, after its equals
RECURSIVE InsertPlotRow(_, _)
InsertPlotRow(x, s) ==
  IF s = <<>> THEN <<x>>
  ELSE IF PlotRowLess(x, Head(s)) THEN <<x>> \o s
  ELSE <<Head(s)>> \o InsertPlotRow(x, Tail(s))

RECURSIVE SortPlotRowFrom(_, _, _)
SortPlotRowFrom(s, i, acc) ==
  IF i > Len(s) THEN acc
  ELSE SortPlotRowFrom(s, i + 1, InsertPlotRow(s[i], acc))

\* ------------------------------------------------------------ input tables
\* A design table (the DataFrame's rows): the cells S x (1..nw) range by
\* range, every g adjacent rows of a range sharing one Plot number.
\*   lab   "cell": a Barcode per record; "plot": a Barcode per plot;
\*         "row": a Barcode per row position (repeated in every plot)
\*   shape "full"; "hole": the last cell of the first range is absent;
\*         "shift": Row numbers start at 2; "reversed": full, listed backwards
RangeIndex(S, r) == Cardinality({x \in S : x <= r})

PlotNumber(S, nw, g, r, w) == (RangeIndex(S, r) - 1) * CeilDiv(nw, g) + CeilDiv(w, g)

BarcodeOf(lab, S, nw, g, r, w) ==
  CASE lab = "cell" -> "BC" \o ToString((RangeIndex(S, r) - 1) * nw + w)
    [] lab = "plot" -> "P" \o ToString(PlotNumber(S, nw, g, r, w))
    [] OTHER -> "W" \o ToString(w)

DesignRecord(S, nw, g, lab, shape, r, w) ==
  [Plot |-> PlotNumber(S, nw, g, r, w),
   Range |-> r,
   Row |-> IF shape = "shift" THEN w + 1 ELSE w,
   Barcode |-> BarcodeOf(lab, S, nw, g, r, w)]

RECURSIVE DesignRows(_, _, _, _, _, _)
DesignRows(S, nw, g, lab, shape, todo) ==
  IF todo = {} THEN <<>>
  ELSE LET r == SetMin(todo)
           last == IF shape = "hole" /\ r = SetMin(S) THEN nw - 1 ELSE nw
       IN [w \in 1..last |-> DesignRecord(S, nw, g, lab, shape, r, w)]
          \o DesignRows(S, nw, g, lab, shape, todo \ {r})

DesignTable(S, nw, g, lab, shape) ==
  LET rows == DesignRows(S, nw, g, lab, shape, S)
  IN IF shape = "reversed" THEN Reverse(rows) ELSE rows

\* range values present: all of 1..MaxRange, without the first (offset), or
\* without the second (a gap)
RangeSets == {1..MaxRange, (1..MaxRange) \ {1}, (1..MaxRange) \ {2}}

Labellings == {"cell", "plot", "row"}

Shapes == {"full", "hole", "shift", "reversed"}

\* the layouts: every set of ranges in full, and every shape on all ranges
Layouts ==
  {<<S, "full">> : S \in RangeSets} \cup {<<1..MaxRange, sh>> : sh \in Shapes}

TablesOf(LS, NW, GS, Labs) ==
  UNION {{DesignTable(l[1], nw, g, lab, l[2]) :
            l \in LS, g \in GS \cap (1..nw), lab \in Labs} :
         nw \in NW}

\* -------------------------------------------------------------- arguments
\* stagger: <<>> is None, else <<start row, rows per pass, offset>>
StaggerSpecs ==
  {<<>>} \cup {<<s, p, 5>> : s \in 0..(MaxPass + 2), p \in 1..MaxPass}

\* B - A of the AB lines: the four quadrants, the two horizontal lines and
\* the vertical line
ABDeltas ==
  {<<3, 4>>, <<-3, 4>>, <<-3, -4>>, <<3, -4>>, <<5, 0>>, <<-5, 0>>, <<0, 5>>}

\* the signature's defaults (A, B and infile have none)
DefaultArgs ==
  [A |-> <<10, 20>>, B |-> <<13, 24>>,
   infile |-> [columns |-> required_cols,
               rows |-> DesignTable(1..2, 2, 1, "cell", "full")],
   UTMzone |-> None, Hemisphere |-> "N",
   nrowplot |-> 1, multirowind |-> FALSE,
   rowspc |-> 25, rowbuf |-> 1, rangespc |-> 250, rangebuf |-> 20,
   stagger |-> <<>>, plotsubset |-> 0, unit |-> "feet",
   SquarePlot |-> TRUE, RotatePlot |-> TRUE]

PointB(A, d) == <<A[1] + d[1], A[2] + d[2]>>

NRowPlots == 1..MaxNRowPlot

PlotSubsets == 0..MaxSubset

\* ------------------------------------------------------------------ state
VARIABLES
  args,               \* the call's arguments
  pc, err,            \* the block about to run; the exception raised
  warned,             \* warnings emitted so far
  infile,             \* the rows of infile once sorted (line 137)
  nRange, nRow, nPlot,
  DirectionTheta, Theta, srt_theta,
  RangeSpacingM, RowSpacingM, RangeBufferM, RowBufferM, staggerM,
  PlotsSquareM, row_names,
  PlotSquare4plot, PlotsSquareMBuf,
  PlotsAdjustedM, PlotsAdjustedMBuf,
  crs,
  files               \* the artifacts written

vars ==
  <<args, pc, err, warned, infile, nRange, nRow, nPlot, DirectionTheta, Theta,
    srt_theta, RangeSpacingM, RowSpacingM, RangeBufferM, RowBufferM, staggerM,
    PlotsSquareM, row_names, PlotSquare4plot, PlotsSquareMBuf,
    PlotsAdjustedM, PlotsAdjustedMBuf, crs, files>>

sortVars == <<infile, nRange, nRow, nPlot>>

angleVars == <<DirectionTheta, Theta, srt_theta>>

unitVars == <<RangeSpacingM, RowSpacingM, RangeBufferM, RowBufferM, staggerM>>

squareVars == <<PlotSquare4plot, PlotsSquareMBuf>>

rotatedVars == <<PlotsAdjustedM, PlotsAdjustedMBuf>>

InitLocals ==
  /\ pc = "validate_columns"
  /\ err = None
  /\ warned = {}
  /\ infile = <<>>
  /\ nRange = 0 /\ nRow = 0 /\ nPlot = 0
  /\ DirectionTheta = [s |-> 0, c |-> 0, h |-> 0]
  /\ Theta = [k |-> 0, sgn |-> 0]
  /\ srt_theta = [base |-> 0, sgn |-> 0]
  /\ RangeSpacingM = 0 /\ RowSpacingM = 0
  /\ RangeBufferM = 0 /\ RowBufferM = 0 /\ staggerM = 0
  /\ PlotsSquareM = <<>> /\ row_names = <<>>
  /\ PlotSquare4plot = <<>> /\ PlotsSquareMBuf = <<>>
  /\ PlotsAdjustedM = <<>> /\ PlotsAdjustedMBuf = <<>>
  /\ crs = None
  /\ files = {}

Raise(e) == pc' = "error" /\ err' = e

Goto(l) == pc' = l /\ err' = err

\* ------------------------------------------------- lines 115-131: validation
\* variant: the label column is not required
missing_cols_NoLabel == (required_cols \ {"Barcode"}) \ args.infile.columns

missing_cols == required_cols \ args.infile.columns

ValidateColumns ==
  /\ pc = "validate_columns"
  /\ IF missing_cols # {} THEN Raise("MissingColumns") ELSE Goto("validate_stagger")
  /\ UNCHANGED <<args, warned, sortVars, angleVars, unitVars, PlotsSquareM,
                 row_names, squareVars, rotatedVars, crs, files>>

\* variant: the planter check is off by one (>= for >)
StaggerError_OffByOne(st, n, m) ==
  IF st[1] = 1 THEN "StaggerFirstPlot"
  ELSE IF st[1] >= st[2] + 1 THEN "StaggerPlanter"
  ELSE IF n > 1 /\ ~m /\ 2 * n > st[2] THEN "StaggerCombined"
  ELSE None

\* variant: the combined-rows check is missing
StaggerError_NoCombinedCheck(st, n, m) ==
  IF st[1] = 1 THEN "StaggerFirstPlot"
  ELSE IF st[1] > st[2] + 1 THEN "StaggerPlanter"
  ELSE None

\* the ValueError the stagger checks raise, None when they pass (st is not None)
StaggerError(st, n, m) ==
  IF st[1] = 1 THEN "StaggerFirstPlot"
  ELSE IF st[1] > st[2] + 1 THEN "StaggerPlanter"
  ELSE IF n > 1 /\ ~m /\ 2 * n > st[2] THEN "StaggerCombined"
  ELSE None

ValidateStagger ==
  /\ pc = "validate_stagger"
  /\ LET e == IF args.stagger = <<>> THEN None
              ELSE StaggerError(args.stagger, args.nrowplot, args.multirowind)
     IN IF e # None THEN Raise(e) ELSE Goto("sort")
  /\ UNCHANGED <<args, warned, sortVars, angleVars, unitVars, PlotsSquareM,
                 row_names, squareVars, rotatedVars, crs, files>>

\* ------------------------------------------- lines 136-145: sort and count
SortedRows(rows) == SortPlotRowFrom(rows, 1, <<>>)

SortAndCount ==
  /\ pc = "sort"
  /\ \E sorted \in {SortedRows(args.infile.rows)} :
       \E nr \in {Cardinality({sorted[i].Range : i \in DOMAIN sorted})} :
         \E nw \in {Cardinality({sorted[i].Row : i \in DOMAIN sorted})} :
           /\ infile' = sorted
           /\ nRange' = nr
           /\ nRow' = nw
           /\ nPlot' = Len(sorted)
           /\ warned' = IF Len(sorted) # nr * nw
                        THEN warned \cup {"LengthNotEqualPlots"} ELSE warned
  /\ Goto("ab_line")
  /\ UNCHANGED <<args, angleVars, unitVars, PlotsSquareM, row_names,
                 squareVars, rotatedVars, crs, files>>

\* ------------------------------------------------ lines 147-164: the AB line
DeltaEasting == args.B[1] - args.A[1]

DeltaNorthing == args.B[2] - args.A[2]

\* arctan(|dN| / |dE|) as its sine s/h and cosine c/h
ArcTan(dN, dE) ==
  [s |-> Abs(dN), c |-> Abs(dE), h |-> ISqrt(dN * dN + dE * dE)]

\* Theta = k*pi/2 + sgn*DirectionTheta
QuadrantTheta(dN, dE) ==
  IF dN > 0 /\ dE > 0 THEN [k |-> 3, sgn |-> 1]
  ELSE IF dN > 0 /\ dE < 0 THEN [k |-> 1, sgn |-> -1]
  ELSE IF dN < 0 /\ dE < 0 THEN [k |-> 1, sgn |-> 1]
  ELSE [k |-> 3, sgn |-> -1]

\* srt_theta = base + sgn*degrees(DirectionTheta)
QuadrantSrtTheta(dN, dE) ==
  IF dN > 0 /\ dE > 0 THEN [base |-> 90, sgn |-> -1]
  ELSE IF dN > 0 /\ dE < 0 THEN [base |-> 270, sgn |-> 1]
  ELSE IF dN < 0 /\ dE < 0 THEN [base |-> 0, sgn |-> 1]
  ELSE [base |-> 270, sgn |-> 1]

\* h*cos(th) and h*sin(th): cos(3pi/2 + x) = sin x, sin(3pi/2 + x) = -cos x,
\* cos(pi/2 + x) = -sin x, sin(pi/2 + x) = cos x
CosH(th) ==
  IF th.k = 3 THEN th.sgn * DirectionTheta.s ELSE -(th.sgn * DirectionTheta.s)

SinH(th) == IF th.k = 3 THEN -DirectionTheta.c ELSE DirectionTheta.c

ABLine ==
  /\ pc = "ab_line"
  /\ IF DeltaEasting = 0
     THEN Raise("ZeroDivisionError") /\ UNCHANGED angleVars
     ELSE /\ DirectionTheta' = ArcTan(DeltaNorthing, DeltaEasting)
          /\ Theta' = QuadrantTheta(DeltaNorthing, DeltaEasting)
          /\ srt_theta' = QuadrantSrtTheta(DeltaNorthing, DeltaEasting)
          /\ Goto("units")
  /\ UNCHANGED <<args, warned, sortVars, unitVars, PlotsSquareM, row_names,
                 squareVars, rotatedVars, crs, files>>

\* ------------------------------------------------ lines 166-178: to metres
\* x tenths of args.unit in counts of 1/32810 m
Meters(x) == IF args.unit = "feet" THEN x * 1000 ELSE x * FeetPerMeter

ConvertUnits ==
  /\ pc = "units"
  /\ RangeSpacingM' = Meters(args.rangespc)
  /\ RowSpacingM' = Meters(args.rowspc)
  /\ RangeBufferM' = Meters(args.rangebuf)
  /\ RowBufferM' = Meters(args.rowbuf)
  /\ staggerM' = IF args.stagger # <<>> THEN Meters(args.stagger[3]) ELSE 0
  /\ Goto("matrix")
  /\ UNCHANGED <<args, warned, sortVars, angleVars, PlotsSquareM, row_names,
                 squareVars, rotatedVars, crs, files>>

\* --------------------------------------------- lines 180-188: plot matrix
\* A row of the 12-column matrix: columns 0, 1, 2 and 11 by name, columns
\* 3..10 as the four corners <<Y, X>> (bottom left, bottom right, top right,
\* top left), zero until computed.
ZeroCorners == [j \in 1..4 |-> <<0, 0>>]

MatrixOf(rows) ==
  LET minRange == SetMin({rows[i].Range : i \in DOMAIN rows})
      minRow == SetMin({rows[i].Row : i \in DOMAIN rows})
  IN [i \in DOMAIN rows |->
        [Plot |-> rows[i].Plot,
         Range |-> rows[i].Range - minRange + 1,
         Row |-> rows[i].Row - minRow + 1,
         corners |-> ZeroCorners,
         OrigRow |-> rows[i].Row - minRow + 1]]

CreateMatrix ==
  /\ pc = "matrix"
  /\ PlotsSquareM' = MatrixOf(infile)
  /\ row_names' = [i \in DOMAIN infile |-> infile[i].Barcode]
  /\ Goto("combine")
  /\ UNCHANGED <<args, warned, sortVars, angleVars, unitVars, squareVars,
                 rotatedVars, crs, files>>

\* ------------------------------------------- lines 190-211: combined rows
\* the mask of line 200: row 1 + plotsubset, or a row of
\* arange(1 + nrowplot + plotsubset, max + 1, nrowplot)
CombineMask(M, n, k) ==
  [i \in DOMAIN M |->
     \/ M[i].Row = 1 + k
     \/ /\ M[i].Row >= 1 + n + k
        /\ \E j \in DOMAIN M : M[i].Row <= M[j].Row
        /\ (M[i].Row - (1 + n + k)) % n = 0]

\* variant: floor division for np.ceil
Renumber_Floor(M, n) ==
  [i \in DOMAIN M |->
     IF M[i].Row > 1 THEN [M[i] EXCEPT !.Row = M[i].Row \div n] ELSE M[i]]

\* lines 209-211
Renumber(M, n) ==
  [i \in DOMAIN M |->
     IF M[i].Row > 1 THEN [M[i] EXCEPT !.Row = CeilDiv(M[i].Row, n)] ELSE M[i]]

CombineRows ==
  /\ pc = "combine"
  /\ IF args.nrowplot > 1 /\ ~args.multirowind /\ args.plotsubset = 0
     THEN \E mask \in {CombineMask(PlotsSquareM, args.nrowplot, args.plotsubset)} :
            /\ RowSpacingM' = Meters(args.nrowplot * args.rowspc)
            /\ PlotsSquareM' = Renumber(Mask(PlotsSquareM, mask), args.nrowplot)
            /\ row_names' = Mask(row_names, mask)
     ELSE UNCHANGED <<RowSpacingM, PlotsSquareM, row_names>>
  /\ Goto("relabel")
  /\ UNCHANGED <<args, warned, sortVars, angleVars, RangeSpacingM,
                 RangeBufferM, RowBufferM, staggerM, squareVars, rotatedVars,
                 crs, files>>

\* ------------------------------------------- lines 213-225: row suffixes
\* infile['Barcode'].unique(): the barcodes in order of first appearance
RECURSIVE UniqueFrom(_, _, _)
UniqueFrom(rows, i, acc) ==
  IF i > Len(rows) THEN acc
  ELSE UniqueFrom(rows, i + 1,
                  IF rows[i].Barcode \in Range(acc) THEN acc
                  ELSE Append(acc, rows[i].Barcode))

unique_barcodes(rows) == UniqueFrom(rows, 1, <<>>)

Suffixed(barcode, k) == barcode \o "_" \o ToString(k)

\* lines 218-223: for each barcode in turn, one name per record carrying it
RECURSIVE NewRowNamesFrom(_, _)
NewRowNamesFrom(groups, b) ==
  IF b > Len(groups) THEN <<>>
  ELSE groups[b] \o NewRowNamesFrom(groups, b + 1)

new_row_names(rows) ==
  LET ub == unique_barcodes(rows)
      names == [b \in DOMAIN ub |->
                  [k \in 1..Cardinality({i \in DOMAIN rows : rows[i].Barcode = ub[b]})
                     |-> Suffixed(ub[b], k)]]
  IN NewRowNamesFrom(names, 1)

SeparateRows == (args.nrowplot > 1 /\ args.multirowind) \/ args.plotsubset # 0

Relabel ==
  /\ pc = "relabel"
  /\ IF SeparateRows
     THEN \E names \in {new_row_names(infile)} :
            row_names' = SubSeq(names, 1, Len(PlotsSquareM))
     ELSE UNCHANGED row_names
  /\ Goto("subset")
  /\ UNCHANGED <<args, warned, sortVars, angleVars, unitVars, PlotsSquareM,
                 squareVars, rotatedVars, crs, files>>

\* ------------------------------------------------ lines 227-247: subsetting
\* variant: the nrowplot == 2*plotsubset check is missing
SubsetError_NoEmptyCheck(n, k) ==
  IF n = 1 THEN "SubsetSingular"
  ELSE IF n < 3 THEN "SubsetCentral"
  ELSE None

\* the ValueError of lines 229-234, None when the combination passes
SubsetError(n, k) ==
  IF n = 1 THEN "SubsetSingular"
  ELSE IF n < 3 THEN "SubsetCentral"
  ELSE IF n = 2 * k THEN "SubsetNoPolygons"
  ELSE None

\* variant: only the lower outer rows are removed
plot_mask_LowerOnly(M, k) ==
  [i \in DOMAIN M |->
     \E j \in DOMAIN M : M[j].Plot = M[i].Plot /\ M[i].Row >= M[j].Row + k]

\* lines 237-244: row i is kept when its row lies in
\* arange(min + plotsubset, max - plotsubset + 1) of its plot's rows
plot_mask(M, k) ==
  [i \in DOMAIN M |->
     LET plot_rows == {M[j].Row : j \in {x \in DOMAIN M : M[x].Plot = M[i].Plot}}
     IN /\ M[i].Row >= SetMin(plot_rows) + k
        /\ M[i].Row <= SetMax(plot_rows) - k]

Subset ==
  /\ pc = "subset"
  /\ IF SeparateRows /\ args.plotsubset # 0
     THEN IF SubsetError(args.nrowplot, args.plotsubset) # None
          THEN /\ Raise(SubsetError(args.nrowplot, args.plotsubset))
               /\ UNCHANGED <<PlotsSquareM, row_names>>
          ELSE \E mask \in {plot_mask(PlotsSquareM, args.plotsubset)} :
                 /\ PlotsSquareM' = Mask(PlotsSquareM, mask)
                 /\ row_names' = Mask(row_names, mask)
                 /\ Goto("serpentine")
     ELSE Goto("serpentine") /\ UNCHANGED <<PlotsSquareM, row_names>>
  /\ UNCHANGED <<args, warned, sortVars, angleVars, unitVars, squareVars,
                 rotatedVars, crs, files>>

\* ------------------------------------------- lines 249-267: serpentine order
\* np.argsort of the rows at positions idxs (for these lengths numpy's
\* default sort is an insertion sort, which keeps equal rows in order)
RECURSIVE InsertByRow(_, _, _)
InsertByRow(M, x, s) ==
  IF s = <<>> THEN <<x>>
  ELSE IF M[x].Row < M[Head(s)].Row THEN <<x>> \o s
  ELSE <<Head(s)>> \o InsertByRow(M, x, Tail(s))

RECURSIVE ArgsortFrom(_, _, _, _)
ArgsortFrom(M, idxs, i, acc) ==
  IF i > Len(idxs) THEN acc
  ELSE ArgsortFrom(M, idxs, i + 1, InsertByRow(M, idxs[i], acc))

\* the positions of M with range i, in order
RECURSIVE RangePositions(_, _, _)
RangePositions(M, i, j) ==
  IF j > Len(M) THEN <<>>
  ELSE (IF M[j].Range = i THEN <<j>> ELSE <<>>) \o RangePositions(M, i, j + 1)

\* variant: the odd ranges are reversed instead of the even ones
RangeOrder_OddReversed(M, i) ==
  IF i % 2 = 1 THEN Reverse(ArgsortFrom(M, RangePositions(M, i, 1), 1, <<>>))
  ELSE ArgsortFrom(M, RangePositions(M, i, 1), 1, <<>>)

\* lines 253-260 for range i
RangeOrder(M, i) ==
  LET sort_idx == ArgsortFrom(M, RangePositions(M, i, 1), 1, <<>>)
  IN IF i % 2 = 0 THEN Reverse(sort_idx) ELSE sort_idx

\* the positions of M in emission order, ranges i..n
RECURSIVE SerpentineOrder(_, _, _)
SerpentineOrder(M, i, n) ==
  IF i > n THEN <<>> ELSE RangeOrder(M, i) \o SerpentineOrder(M, i + 1, n)

Serpentine ==
  /\ pc = "serpentine"
  /\ \E order \in {SerpentineOrder(PlotsSquareM, 1, nRange)} :
        /\ PlotsSquareM' = [p \in DOMAIN order |-> PlotsSquareM[order[p]]]
        /\ row_names' = [p \in DOMAIN order |-> row_names[order[p]]]
        /\ PlotSquare4plot' = [p \in DOMAIN order |-> PlotsSquareM[order[p]]]
  /\ Goto("corners")
  /\ UNCHANGED <<args, warned, sortVars, angleVars, unitVars, PlotsSquareMBuf,
                 rotatedVars, crs, files>>

\* ------------------------------------------ lines 269-284: square corners
CornersOf(r, c, RS, WS) ==
  << <<(r - 1) * RS, (c - 1) * WS>>,
     <<(r - 1) * RS, c * WS>>,
     <<r * RS, c * WS>>,
     <<r * RS, (c - 1) * WS>> >>

Corners ==
  /\ pc = "corners"
  /\ PlotsSquareM' =
       [i \in DOMAIN PlotsSquareM |->
          [PlotsSquareM[i] EXCEPT !.corners =
             CornersOf(PlotsSquareM[i].Range, PlotsSquareM[i].Row,
                       RangeSpacingM, RowSpacingM)]]
  /\ Goto("stagger")
  /\ UNCHANGED <<args, warned, sortVars, angleVars, unitVars, row_names,
                 squareVars, rotatedVars, crs, files>>

\* ------------------------------------------------- lines 286-295: stagger
\* ceil((floor(o - stagger[0] + 1) + stagger[1]) / stagger[1]) % 2
stagger_check(o, st) == CeilDiv((o - st[1] + 1) + st[2], st[2]) % 2

ShiftRange(cs, d) == [j \in 1..4 |-> <<cs[j][1] + d, cs[j][2]>>]

ApplyStagger ==
  /\ pc = "stagger"
  /\ IF args.stagger # <<>>
     THEN PlotSquare4plot' =
            [i \in DOMAIN PlotsSquareM |->
               IF stagger_check(PlotsSquareM[i].OrigRow, args.stagger) = 0
               THEN [PlotsSquareM[i] EXCEPT
                       !.corners = ShiftRange(PlotsSquareM[i].corners, staggerM)]
               ELSE PlotsSquareM[i]]
     ELSE UNCHANGED PlotSquare4plot
  /\ Goto("buffer")
  /\ UNCHANGED <<args, warned, sortVars, angleVars, unitVars, PlotsSquareM,
                 row_names, PlotsSquareMBuf, rotatedVars, crs, files>>

\* -------------------------------------------------- lines 297-312: buffer
BufferCorners(cs, rangeBuf, rowBuf) ==
  << <<cs[1][1] + rangeBuf, cs[1][2] + rowBuf>>,
     <<cs[2][1] + rangeBuf, cs[2][2] - rowBuf>>,
     <<cs[3][1] - rangeBuf, cs[3][2] - rowBuf>>,
     <<cs[4][1] - rangeBuf, cs[4][2] + rowBuf>> >>

Buffer ==
  /\ pc = "buffer"
  /\ PlotsSquareMBuf' =
       [i \in DOMAIN PlotsSquareM |->
          [PlotsSquareM[i] EXCEPT
             !.corners = BufferCorners(PlotsSquareM[i].corners,
                                       RangeBufferM, RowBufferM)]]
  /\ Goto("square_plot")
  /\ UNCHANGED <<args, warned, sortVars, angleVars, unitVars, PlotsSquareM,
                 row_names, PlotSquare4plot, rotatedVars, crs, files>>

\* ---------------------------- lines 314-317, 389-420: _create_square_plot
\* PlotsSquareM[:, 2].max() raises ValueError on a matrix of no rows.
SquarePlotStep ==
  /\ pc = "square_plot"
  /\ IF ~args.SquarePlot THEN Goto("rotate") /\ UNCHANGED files
     ELSE IF Len(PlotSquare4plot) = 0
     THEN Raise("ZeroSizeArray") /\ UNCHANGED files
     ELSE /\ files' = files \cup
                 {[kind |-> "Square_plots.pdf", plots |-> PlotSquare4plot,
                   bufs |-> PlotsSquareMBuf, names |-> row_names]}
          /\ Goto("rotate")
  /\ UNCHANGED <<args, warned, sortVars, angleVars, unitVars, PlotsSquareM,
                 row_names, squareVars, rotatedVars, crs>>

\* ------------------------------------------------ lines 319-366: rotation
\* Rotated coordinates are held multiplied by h = DirectionTheta.h.
\* A in counts of 1/32810 m, times h: <<Easting, Northing>>
OriginH ==
  <<args.A[1] * 10 * FeetPerMeter * DirectionTheta.h,
    args.A[2] * 10 * FeetPerMeter * DirectionTheta.h>>

\* lines 324-336: the staggered origin <<Easting, Northing>>, times h
StaggerOriginH(dN, dE, th, d) ==
  IF dN > 0 /\ dE > 0
  THEN <<OriginH[1] - d * SinH(th), OriginH[2] + d * CosH(th)>>
  ELSE IF dN > 0 /\ dE < 0
  THEN <<OriginH[1] - d * CosH(th), OriginH[2] + d * SinH(th)>>
  ELSE IF dN < 0 /\ dE < 0
  THEN <<OriginH[1] - d * CosH(th), OriginH[2] + d * SinH(th)>>
  ELSE <<OriginH[1] + d * CosH(th), OriginH[2] - d * SinH(th)>>

\* lines 343-349
use_stagger(row) ==
  args.stagger # <<>> /\ stagger_check(row.OrigRow, args.stagger) = 0

OriginFor(row) ==
  IF use_stagger(row)
  THEN StaggerOriginH(DeltaNorthing, DeltaEasting, Theta, staggerM)
  ELSE OriginH

\* variant: the origin's easting and northing are exchanged
RotateCorner_SwappedOrigin(yx, th, origin) ==
  <<yx[1] * CosH(th) + yx[2] * SinH(th) + origin[1],
    yx[2] * CosH(th) - yx[1] * SinH(th) + origin[2]>>

\* lines 357-360 for one corner <<Y, X>> about origin <<E, N>>
RotateCorner(yx, th, origin) ==
  <<yx[1] * CosH(th) + yx[2] * SinH(th) + origin[2],
    yx[2] * CosH(th) - yx[1] * SinH(th) + origin[1]>>

\* the origin of row i is chosen from PlotsSquareM[i, 11] for both matrices
Rotated(M) ==
  [i \in DOMAIN M |->
     [M[i] EXCEPT !.corners =
        [j \in 1..4 |->
           RotateCorner(M[i].corners[j], Theta, OriginFor(PlotsSquareM[i]))]]]

Rotate ==
  /\ pc = "rotate"
  /\ PlotsAdjustedM' = Rotated(PlotsSquareM)
  /\ PlotsAdjustedMBuf' = Rotated(PlotsSquareMBuf)
  /\ Goto("rotated_plot")
  /\ UNCHANGED <<args, warned, sortVars, angleVars, unitVars, PlotsSquareM,
                 row_names, squareVars, crs, files>>

\* --------------------------- lines 368-371, 423-458: _create_rotated_plot
\* all_x.min() raises ValueError on a matrix of no rows.
RotatedPlotStep ==
  /\ pc = "rotated_plot"
  /\ IF ~args.RotatePlot THEN Goto("crs") /\ UNCHANGED files
     ELSE IF Len(PlotsAdjustedM) = 0
     THEN Raise("ZeroSizeArray") /\ UNCHANGED files
     ELSE /\ files' = files \cup
                 {[kind |-> "Rotated_plots.pdf", plots |-> PlotsAdjustedM,
                   bufs |-> PlotsAdjustedMBuf, names |-> row_names,
                   srt_theta |-> srt_theta]}
          /\ Goto("crs")
  /\ UNCHANGED <<args, warned, sortVars, angleVars, unitVars, PlotsSquareM,
                 row_names, squareVars, rotatedVars, crs>>

\* ----------------------------------------------------- lines 373-382: CRS
CrsString(zone, hemisphere) ==
  IF hemisphere = "N"
  THEN "+proj=utm +zone=" \o zone \o " +datum=NAD83 +units=m +no_defs +ellps=GRS80"
  ELSE "+proj=utm +zone=" \o zone
         \o " +south +datum=NAD83 +units=m +no_defs +ellps=GRS80"

\* variant: an absent UTM zone is an error instead of a warning
SetCRS_Strict ==
  /\ pc = "crs"
  /\ IF args.UTMzone = None
     THEN Raise("CrsNotDefined") /\ UNCHANGED <<crs, warned>>
     ELSE /\ crs' = CrsString(args.UTMzone, args.Hemisphere)
          /\ UNCHANGED warned
          /\ Goto("write")
  /\ UNCHANGED <<args, sortVars, angleVars, unitVars, PlotsSquareM, row_names,
                 squareVars, rotatedVars, files>>

SetCRS ==
  /\ pc = "crs"
  /\ IF args.UTMzone = None
     THEN crs' = None /\ warned' = warned \cup {"CrsNotDefined"}
     ELSE crs' = CrsString(args.UTMzone, args.Hemisphere) /\ UNCHANGED warned
  /\ Goto("write")
  /\ UNCHANGED <<args, sortVars, angleVars, unitVars, PlotsSquareM, row_names,
                 squareVars, rotatedVars, files>>

\* ------------------------------- lines 384-386, 461-491: _write_shapefile
\* the closed ring of one matrix row, (X, Y) per point
Ring(row) ==
  [j \in 1..5 |->
     LET c == row.corners[IF j = 5 THEN 1 ELSE j] IN <<c[2], c[1]>>]

Shapefile(M, names, buffered) ==
  [kind |-> IF buffered THEN "_buff.shp" ELSE ".shp",
   id |-> names,
   geometry |-> [i \in DOMAIN M |-> Ring(M[i])],
   crs |-> crs]

\* GeoDataFrame.to_file on a frame of no rows: geopandas raises ValueError
\* ("Cannot write empty DataFrame") or warns and writes, by version.
WriteShapefiles ==
  /\ pc = "write"
  /\ \E outcome \in IF Len(PlotsAdjustedM) = 0 THEN {"raise", "write"} ELSE {"write"} :
       IF outcome = "raise"
       THEN Raise("EmptyDataFrame") /\ UNCHANGED files
       ELSE /\ files' = files \cup
                   {Shapefile(PlotsAdjustedM, row_names, FALSE),
                    Shapefile(PlotsAdjustedMBuf, row_names, TRUE)}
            /\ Goto("done")
  /\ UNCHANGED <<args, warned, sortVars, angleVars, unitVars, PlotsSquareM,
                 row_names, squareVars, rotatedVars, crs>>

\* ---------------------------------------------------------- specification
Next ==
  \/ ValidateColumns
  \/ ValidateStagger
  \/ SortAndCount
  \/ ABLine
  \/ ConvertUnits
  \/ CreateMatrix
  \/ CombineRows
  \/ Relabel
  \/ Subset
  \/ Serpentine
  \/ Corners
  \/ ApplyStagger
  \/ Buffer
  \/ SquarePlotStep
  \/ Rotate
  \/ RotatedPlotStep
  \/ SetCRS
  \/ WriteShapefiles

\* The calls checked.  Each family varies the arguments its properties
\* are about and includes calls that fail validation.
Call(cols, rows, st, n, m, k, d, zone, hem, unit, sq, rot) ==
  [DefaultArgs EXCEPT
     !.infile = [columns |-> cols, rows |-> rows],
     !.stagger = st, !.nrowplot = n, !.multirowind = m, !.plotsubset = k,
     !.B = PointB(DefaultArgs.A, d),
     !.UTMzone = zone, !.Hemisphere = hem, !.unit = unit,
     !.SquarePlot = sq, !.RotatePlot = rot]

\* validation: every set of columns, every stagger spec and grouping triple
ValidationCalls ==
  {Call(cols, rows, st, n, m, k, d, "14", "N", "feet", TRUE, TRUE) :
     cols \in SUBSET required_cols,
     rows \in TablesOf({<<1..MaxRange, "full">>}, {MaxRow - 1}, {MaxRow - 1}, {"plot"}),
     st \in StaggerSpecs, n \in NRowPlots, m \in BOOLEAN, k \in PlotSubsets,
     d \in {<<3, 4>>, <<-5, 0>>, <<0, 5>>}}

\* grouping and ordering: every design table and grouping triple
GroupingCalls ==
  {Call(required_cols, rows, <<>>, n, m, k, <<3, 4>>, "14", "N", "feet", TRUE, TRUE) :
     rows \in TablesOf(Layouts, 1..MaxRow, {1, 2, MaxRow - 1}, Labellings),
     n \in NRowPlots, m \in BOOLEAN, k \in PlotSubsets}

\* output: the CRS arguments and the rendering switches
OutputCalls ==
  {Call(required_cols, rows, <<>>, n, m, k, <<3, 4>>, zone, hem, "meter", sq, rot) :
     rows \in TablesOf(Layouts, {MaxRow - 1}, {1, MaxRow - 1}, {"cell"}),
     n \in NRowPlots, m \in BOOLEAN, k \in PlotSubsets,
     zone \in {None, "14"}, hem \in {"N", "S"},
     sq \in BOOLEAN, rot \in BOOLEAN}

\* geometry: every AB line, stagger spec, grouping triple and unit
GeometryCalls ==
  {Call(required_cols, rows, st, n, m, k, d, "14", "N", unit, TRUE, TRUE) :
     rows \in TablesOf({<<1..MaxRange, "full">>}, {MaxRow - 1}, {MaxRow - 1}, {"cell"}),
     st \in StaggerSpecs, n \in NRowPlots, m \in BOOLEAN, k \in PlotSubsets,
     d \in ABDeltas, unit \in {"feet", "meter"}}

InitValidation == args \in ValidationCalls /\ InitLocals

InitGrouping == args \in GroupingCalls /\ InitLocals

InitOutput == args \in OutputCalls /\ InitLocals

InitGeometry == args \in GeometryCalls /\ InitLocals

Init == InitValidation

SpecValidation == InitValidation /\ [][Next]_vars

SpecGrouping == InitGrouping /\ [][Next]_vars

SpecOutput == InitOutput /\ [][Next]_vars

SpecGeometry == InitGeometry /\ [][Next]_vars

Spec == Init /\ [][Next]_vars

\* ================================================================ properties
ValidationErrors ==
  {"MissingColumns", "StaggerFirstPlot", "StaggerPlanter", "StaggerCombined",
   "SubsetSingular", "SubsetCentral", "SubsetNoPolygons"}

StaggerErrors == {"StaggerFirstPlot", "StaggerPlanter", "StaggerCombined"}

SubsetErrors == {"SubsetSingular", "SubsetCentral", "SubsetNoPolygons"}

\* the blocks after the last validation check, in order
AfterValidation ==
  {"serpentine", "corners", "stagger", "buffer", "square_plot", "rotate",
   "rotated_plot", "crs", "write", "done"}

ColumnsComplete ==
  {"Plot", "Range", "Row", "Barcode"} \subseteq args.infile.columns

\* the three invariants of a stagger spec, as the specification states them
StaggerSpecBad ==
  \/ args.stagger[1] = 1
  \/ args.stagger[1] > args.stagger[2] + 1
  \/ /\ args.nrowplot > 1
     /\ ~args.multirowind
     /\ 2 * args.nrowplot > args.stagger[2]

\* the subset combinations the specification rejects
SubsetCombinationBad ==
  /\ args.plotsubset # 0
  /\ \/ args.nrowplot = 1
     \/ args.nrowplot < 3
     \/ args.nrowplot = 2 * args.plotsubset

\* C1: whenever the table lacks Plot, Range, Row or Barcode, the call ends
\* in the missing-columns ValueError, whatever the other arguments are: it is
\* raised by the first block and nothing else runs.
C1_MissingColumnsRejected ==
  (~ColumnsComplete /\ pc # "validate_columns")
    => (pc = "error" /\ err = "MissingColumns")

\* only the label column is absent and the stagger spec and the subset
\* combination are invalid too: the missing columns are what is reported
C1_Witness ==
  /\ pc = "error" /\ err = "MissingColumns"
  /\ args.infile.columns = {"Plot", "Range", "Row"}
  /\ args.stagger # <<>> /\ args.stagger[1] = 1
  /\ args.nrowplot = 2 /\ args.plotsubset = 1

\* C2: with a stagger spec given (and the columns present), the stagger
\* check raises if and only if startRow = 1, or startRow > rowsPerPass + 1,
\* or rows are combined (nrowplot > 1, multirowind false) and
\* nrowplot > rowsPerPass / 2; with no stagger spec it never raises.
C2_StaggerValidation ==
  /\ err \in StaggerErrors => args.stagger # <<>>
  /\ (ColumnsComplete /\ args.stagger # <<>>
        /\ pc \notin {"validate_columns", "validate_stagger"})
       => ((pc = "error" /\ err \in StaggerErrors) <=> StaggerSpecBad)

\* combined rows with nrowplot = rowsPerPass / 2 and startRow = rowsPerPass + 1
\* pass the stagger check
C2_Witness ==
  /\ pc = "sort"
  /\ args.stagger # <<>> /\ args.stagger[1] = 5 /\ args.stagger[2] = 4
  /\ args.nrowplot = 2 /\ ~args.multirowind

\* C3: with plotsubset # 0 and nrowplot = 1, nrowplot < 3 or
\* nrowplot = 2*plotsubset, for either value of multirowind, no block after
\* the validation runs, and (the AB line not vertical) the call ends in a
\* validation error, which is the subset error when the columns and the
\* stagger spec are valid.
C3_SubsetValidation ==
  SubsetCombinationBad =>
    /\ pc \notin AfterValidation
    /\ (pc = "error" /\ DeltaEasting # 0) => err \in ValidationErrors
    /\ (pc = "error" /\ DeltaEasting # 0 /\ ColumnsComplete
          /\ (args.stagger = <<>> \/ ~StaggerSpecBad)) => err \in SubsetErrors

\* nrowplot = 2 and plotsubset = 1 with per-row ids is rejected
C3_Witness ==
  /\ pc = "error" /\ err = "SubsetCentral"
  /\ args.nrowplot = 2 /\ args.plotsubset = 1 /\ args.multirowind

GeometryBuilt ==
  \/ \E i \in DOMAIN PlotsSquareM : PlotsSquareM[i].corners # ZeroCorners
  \/ PlotsSquareMBuf # <<>>
  \/ PlotsAdjustedM # <<>>
  \/ PlotsAdjustedMBuf # <<>>

\* C4: a call that ends in a validation error has built no corner
\* coordinates and written no artifact; and no corner is computed, and no
\* artifact written, unless every validation check has passed.
C4_EagerValidation ==
  /\ (pc = "error" /\ err \in ValidationErrors) => (~GeometryBuilt /\ files = {})
  /\ (GeometryBuilt \/ files # {}) =>
       /\ ColumnsComplete
       /\ args.stagger = <<>> \/ ~StaggerSpecBad
       /\ ~SubsetCombinationBad

\* the last validation check (the subset combination) fails with the plot
\* matrix already filled but no corner computed
C4_Witness ==
  /\ pc = "error" /\ err = "SubsetNoPolygons"
  /\ PlotsSquareM # <<>> /\ ~GeometryBuilt /\ files = {}

\* the record count differs from (distinct Range values) x (distinct Row values)
CountMismatch ==
  LET rows == args.infile.rows
  IN Len(rows) # Cardinality({rows[i].Range : i \in DOMAIN rows})
                  * Cardinality({rows[i].Row : i \in DOMAIN rows})

\* C5: the two warnings never end the call.  Once the table is sorted a
\* count mismatch has been warned about and the next block runs; an absent
\* UTMzone is warned about and leaves the CRS unset; a call that completes
\* has written the unbuffered and the buffered shapefile (without CRS when
\* UTMzone is absent); and every call that does not complete has a cause of
\* its own: a rejected subset or stagger combination, a vertical AB line,
\* or no record left to render or export.
C5_WarningsDoNotAbort ==
  /\ (infile # <<>> /\ CountMismatch) => "LengthNotEqualPlots" \in warned
  /\ (pc \in {"write", "done"} /\ args.UTMzone = None)
       => ("CrsNotDefined" \in warned /\ crs = None)
  /\ pc = "done" =>
       /\ \E f \in files : f.kind = ".shp" /\ Len(f.id) = Len(f.geometry)
       /\ \E f \in files : f.kind = "_buff.shp" /\ Len(f.id) = Len(f.geometry)
       /\ args.UTMzone = None =>
            \A f \in files : f.kind \in {".shp", "_buff.shp"} => f.crs = None
  /\ pc = "error" =>
       \/ err = "MissingColumns" /\ ~ColumnsComplete
       \/ err \in StaggerErrors /\ StaggerSpecBad
       \/ err \in SubsetErrors /\ SubsetCombinationBad
       \/ err = "ZeroDivisionError" /\ DeltaEasting = 0
       \/ err \in {"ZeroSizeArray", "EmptyDataFrame"} /\ PlotsSquareM = <<>>

\* both warnings were emitted and both shapefiles written, without CRS
C5_Witness ==
  /\ pc = "done"
  /\ warned = {"LengthNotEqualPlots", "CrsNotDefined"}
  /\ \E f \in files : f.kind = ".shp" /\ f.crs = None /\ Len(f.geometry) > 0
  /\ \E f \in files : f.kind = "_buff.shp" /\ f.crs = None /\ Len(f.geometry) > 0

\* C6: the ordering block emits, for range index 1..nRange ascending, the
\* records at that local range by ascending row when the index is odd and by
\* descending row when it is even, each with the label it had before.
C6_SerpentineOrder ==
  [][pc = "serpentine" =>
       /\ Len(PlotsSquareM') =
            Cardinality({j \in DOMAIN PlotsSquareM : PlotsSquareM[j].Range \in 1..nRange})
       /\ Len(row_names') = Len(PlotsSquareM')
       /\ \A j \in DOMAIN PlotsSquareM :
            PlotsSquareM[j].Range \in 1..nRange =>
              \E i \in DOMAIN PlotsSquareM' :
                PlotsSquareM'[i] = PlotsSquareM[j] /\ row_names'[i] = row_names[j]
       /\ \A i \in DOMAIN PlotsSquareM' :
            \E j \in DOMAIN PlotsSquareM :
              PlotsSquareM'[i] = PlotsSquareM[j] /\ row_names'[i] = row_names[j]
       /\ \A a, b \in DOMAIN PlotsSquareM' :
            a < b =>
              \/ PlotsSquareM'[a].Range < PlotsSquareM'[b].Range
              \/ /\ PlotsSquareM'[a].Range = PlotsSquareM'[b].Range
                 /\ IF PlotsSquareM'[a].Range % 2 = 1
                    THEN PlotsSquareM'[a].Row <= PlotsSquareM'[b].Row
                    ELSE PlotsSquareM'[a].Row >= PlotsSquareM'[b].Row
  ]_vars

\* nRange = 3, nRow = 2: range 1 rows [1, 2], range 2 rows [2, 1], range 3
\* rows [1, 2]
C6_Witness ==
  /\ pc = "corners"
  /\ nRange = 3 /\ nRow = 2
  /\ [i \in DOMAIN PlotsSquareM |-> <<PlotsSquareM[i].Range, PlotsSquareM[i].Row>>]
       = << <<1, 1>>, <<1, 2>>, <<2, 2>>, <<2, 1>>, <<3, 1>>, <<3, 2>> >>

CombinedMode == args.nrowplot > 1 /\ ~args.multirowind /\ args.plotsubset = 0

\* the local row of the sorted table's record j
LocalRow(j) ==
  infile[j].Row + 1 - SetMin({infile[x].Row : x \in DOMAIN infile})

\* C7: in CombinedRows mode the combining block keeps exactly the records at
\* local rows 1, 1+nrowplot, 1+2*nrowplot, ..., renumbers row 1 + t*nrowplot
\* to t + 1 (its ceil(row/nrowplot)), keeps each record's label, and
\* multiplies the row spacing by nrowplot; the rectangles are built with that
\* spacing and the labels are still the input labels at the end.
C7_CombinedRows ==
  /\ [][(pc = "combine" /\ CombinedMode) =>
          /\ RowSpacingM' = args.nrowplot * RowSpacingM
          /\ Len(row_names') = Len(PlotsSquareM')
          /\ Len(PlotsSquareM') =
               Cardinality({j \in DOMAIN PlotsSquareM :
                              (PlotsSquareM[j].Row - 1) % args.nrowplot = 0})
          /\ \A j \in DOMAIN PlotsSquareM :
               \A t \in 0..MaxRow :
                 PlotsSquareM[j].Row = 1 + t * args.nrowplot =>
                   \E i \in DOMAIN PlotsSquareM' :
                     /\ PlotsSquareM'[i] = [PlotsSquareM[j] EXCEPT !.Row = t + 1]
                     /\ row_names'[i] = row_names[j]
     ]_vars
  /\ []((CombinedMode /\ pc \in {"stagger", "buffer", "square_plot", "rotate",
                                 "rotated_plot", "crs", "write", "done"}) =>
          \A i \in DOMAIN PlotsSquareM :
            /\ PlotsSquareM[i].corners[2][2] - PlotsSquareM[i].corners[1][2]
                 = RowSpacingM
            /\ PlotsSquareM[i].corners[3][2] - PlotsSquareM[i].corners[4][2]
                 = RowSpacingM
            /\ \E j \in DOMAIN infile :
                 /\ infile[j].Plot = PlotsSquareM[i].Plot
                 /\ LocalRow(j) = PlotsSquareM[i].OrigRow
                 /\ row_names[i] = infile[j].Barcode)

\* four source rows per range, nrowplot = 2: two rectangles per range, rows
\* {1, 2}, of twice the single-row width
C7_Witness ==
  /\ pc = "stagger" /\ CombinedMode /\ args.nrowplot = 2 /\ nRow = 4
  /\ Len(PlotsSquareM) = 2 * nRange
  /\ {PlotsSquareM[i].Row : i \in DOMAIN PlotsSquareM} = {1, 2}
  /\ {PlotsSquareM[i].OrigRow : i \in DOMAIN PlotsSquareM} = {1, 3}
  /\ \A i \in DOMAIN PlotsSquareM :
       PlotsSquareM[i].corners[2][2] - PlotsSquareM[i].corners[1][2]
         = 2 * 1000 * args.rowspc

\* C8: in IndividualRows/SubsettedRows mode the relabelling block gives
\* every record its own input label followed by _k, k its 1-based position
\* among the records of the sorted table carrying that label.
C8_OwnLabelSuffixed ==
  (pc = "subset" /\ SeparateRows) =>
    /\ Len(row_names) = Len(infile)
    /\ \A i \in DOMAIN infile :
         row_names[i] =
           infile[i].Barcode \o "_"
             \o ToString(Cardinality({j \in 1..i : infile[j].Barcode = infile[i].Barcode}))

\* C9: with plotsubset = k > 0 accepted, the subsetting block keeps exactly
\* the records whose row lies in [min + k, max - k] of the rows of their
\* plot, each with the suffixed label it had before the block.
C9_SubsetInterior ==
  [][(pc = "subset" /\ args.plotsubset > 0 /\ pc' # "error") =>
       LET Interior(j) ==
             /\ \E x \in DOMAIN PlotsSquareM :
                  /\ PlotsSquareM[x].Plot = PlotsSquareM[j].Plot
                  /\ PlotsSquareM[x].Row + args.plotsubset <= PlotsSquareM[j].Row
             /\ \E y \in DOMAIN PlotsSquareM :
                  /\ PlotsSquareM[y].Plot = PlotsSquareM[j].Plot
                  /\ PlotsSquareM[y].Row - args.plotsubset >= PlotsSquareM[j].Row
       IN /\ Len(PlotsSquareM') =
               Cardinality({j \in DOMAIN PlotsSquareM : Interior(j)})
          /\ Len(row_names') = Len(PlotsSquareM')
          /\ \A j \in DOMAIN PlotsSquareM :
               Interior(j) =>
                 \E i \in DOMAIN PlotsSquareM' :
                   PlotsSquareM'[i] = PlotsSquareM[j] /\ row_names'[i] = row_names[j]
          /\ \A i \in DOMAIN PlotsSquareM' :
               \E j \in DOMAIN PlotsSquareM :
                 /\ Interior(j)
                 /\ PlotsSquareM'[i] = PlotsSquareM[j]
                 /\ row_names'[i] = row_names[j]
  ]_vars

\* three-row plots, plotsubset = 1: the middle row of plot 1 is kept with
\* the suffix it was given, the outer rows are gone
C9_Witness ==
  /\ pc = "serpentine" /\ args.plotsubset = 1 /\ args.nrowplot = 3
  /\ 3 * Len(PlotsSquareM) = nPlot
  /\ \E i \in DOMAIN PlotsSquareM :
       /\ PlotsSquareM[i].Plot = 1 /\ PlotsSquareM[i].Row = 2
       /\ row_names[i] = "P1_2"

\* point A as a rotated corner <<Northing, Easting>>, in the units of
\* PlotsAdjustedM
CornerAtA ==
  <<args.A[2] * 10 * FeetPerMeter * DirectionTheta.h,
    args.A[1] * 10 * FeetPerMeter * DirectionTheta.h>>

RotationDone == pc \in {"rotated_plot", "crs", "write", "done"}

\* C10 as stated: after rotation the bottom-left corner of the first emitted
\* unbuffered polygon is A, for every accepted parameter combination.
C10_FirstCornerIsA_AsStated ==
  (RotationDone /\ PlotsAdjustedM # <<>>) =>
    PlotsAdjustedM[1].corners[1] = CornerAtA

\* the first emitted record is selected by the stagger parity
\* ceil((floor(o - s + 1) + p) / p) mod 2 = 0
FirstStaggered ==
  /\ args.stagger # <<>>
  /\ LET q == (PlotsSquareM[1].OrigRow - args.stagger[1] + 1) + args.stagger[2]
     IN ((q + args.stagger[2] - 1) \div args.stagger[2]) % 2 = 0

\* C10 (amended): after rotation the bottom-left corner of the first emitted
\* unbuffered polygon is A whenever the first emitted record is at local
\* range 1 and local row 1 and is not selected by the stagger parity.
C10_FirstCornerIsA ==
  (RotationDone /\ PlotsAdjustedM # <<>>
     /\ PlotsSquareM[1].Range = 1 /\ PlotsSquareM[1].Row = 1
     /\ ~FirstStaggered) =>
    PlotsAdjustedM[1].corners[1] = CornerAtA

\* third quadrant, stagger given and applied to another row: the first
\* polygon starts at A, and its other corners do not
C10_Witness ==
  /\ pc = "done" /\ DeltaEasting < 0 /\ DeltaNorthing < 0
  /\ args.stagger # <<>> /\ ~FirstStaggered
  /\ \E i \in DOMAIN PlotsSquareM : use_stagger(PlotsSquareM[i])
  /\ PlotsSquareM[1].Range = 1 /\ PlotsSquareM[1].Row = 1
  /\ PlotsAdjustedM[1].corners[1] = CornerAtA
  /\ PlotsAdjustedM[1].corners[3] # CornerAtA

\* the row-grouping modes the arguments select (section 4.2 of the
\* specification)
SelectedModes ==
  (IF args.nrowplot = 1 THEN {"Single"} ELSE {})
    \cup (IF args.nrowplot > 1 /\ ~args.multirowind /\ args.plotsubset = 0
          THEN {"CombinedRows"} ELSE {})
    \cup (IF args.nrowplot > 1 /\ args.multirowind
          THEN {"IndividualRows"} ELSE {})
    \cup (IF args.plotsubset # 0 THEN {"SubsettedRows"} ELSE {})

\* C11: the row-grouping modes are mutually exclusive: a call whose
\* arguments select more than one mode is rejected with a validation error
\* and never reaches the blocks after validation, and a call that has its
\* rows combined has none of its labels rewritten.
C11_ModesExclusive ==
  (pc \in AfterValidation) =>
    /\ Cardinality(SelectedModes) <= 1
    /\ (RowSpacingM # Meters(args.rowspc)) =>
         \A i \in DOMAIN row_names :
           row_names[i] \in {infile[j].Barcode : j \in DOMAIN infile}

\* the blocks after the corner computation of lines 272-284
CornersBuilt ==
  pc \in {"stagger", "buffer", "square_plot", "rotate", "rotated_plot", "crs",
          "write", "done"}

\* the four corners of section 4.4 for local range r and row c, each
\* <<range axis, row axis>>
RectangleAsSpecified(r, c) ==
  << <<(r - 1) * RangeSpacingM, (c - 1) * RowSpacingM>>,
     <<(r - 1) * RangeSpacingM, c * RowSpacingM>>,
     <<r * RangeSpacingM, c * RowSpacingM>>,
     <<r * RangeSpacingM, (c - 1) * RowSpacingM>> >>

\* C12: every emitted record with local range r and row c has the corners
\* of section 4.4, hence sides RS and WS, and for a table with
\* nPlot = nRange * nRow in Single mode exactly nPlot rectangles are
\* produced, one for each record of the table.
C12_RectangleBuilder ==
  CornersBuilt =>
    /\ \A i \in DOMAIN PlotsSquareM :
         LET cs == PlotsSquareM[i].corners
         IN /\ cs = RectangleAsSpecified(PlotsSquareM[i].Range, PlotsSquareM[i].Row)
            /\ cs[2][2] - cs[1][2] = RowSpacingM
            /\ cs[3][2] - cs[4][2] = RowSpacingM
            /\ cs[4][1] - cs[1][1] = RangeSpacingM
            /\ cs[3][1] - cs[2][1] = RangeSpacingM
    /\ (args.nrowplot = 1 /\ nPlot = nRange * nRow) =>
         /\ Len(PlotsSquareM) = nPlot
         /\ \A j \in DOMAIN infile :
              \E i \in DOMAIN PlotsSquareM :
                /\ PlotsSquareM[i].Plot = infile[j].Plot
                /\ row_names[i] = infile[j].Barcode

\* the AB-line block has run (h is 0 until then)
AngleComputed == DirectionTheta.h # 0

\* the fourth row of the quadrant table: Theta = 3pi/2 - DirectionTheta,
\* srt_theta = 270 + deg(DirectionTheta)
FourthFormula ==
  /\ Theta = [k |-> 3, sgn |-> -1]
  /\ srt_theta = [base |-> 270, sgn |-> 1]

\* C13: for DeltaEasting # 0 the quadrant is selected by the table: (+,+)
\* gives 3pi/2 + DirectionTheta, (+,-) gives pi/2 - DirectionTheta, (-,-)
\* gives pi/2 + DirectionTheta, and the fourth formula is selected exactly
\* when DeltaEasting > 0 and DeltaNorthing <= 0, never when DeltaEasting < 0.
C13_QuadrantTable ==
  (AngleComputed /\ DeltaEasting # 0) =>
    /\ (DeltaNorthing > 0 /\ DeltaEasting > 0) => Theta = [k |-> 3, sgn |-> 1]
    /\ (DeltaNorthing > 0 /\ DeltaEasting < 0) => Theta = [k |-> 1, sgn |-> -1]
    /\ (DeltaNorthing < 0 /\ DeltaEasting < 0) => Theta = [k |-> 1, sgn |-> 1]
    /\ FourthFormula <=> (DeltaEasting > 0 /\ DeltaNorthing <= 0)

\* parity = ceil((floor(o - s + 1) + p) / p) mod 2 for original row o
StaggerParity(o) ==
  LET q == (o - args.stagger[1] + 1) + args.stagger[2]
  IN ((q + args.stagger[2] - 1) \div args.stagger[2]) % 2

\* the main transform of section 4.7 about A, applied to a local corner
\* <<Y, X>>; the result <<Y', X'>> is held multiplied by h
MainTransform(yx) ==
  <<yx[1] * CosH(Theta) + yx[2] * SinH(Theta)
      + args.A[2] * 10 * FeetPerMeter * DirectionTheta.h,
    yx[2] * CosH(Theta) - yx[1] * SinH(Theta)
      + args.A[1] * 10 * FeetPerMeter * DirectionTheta.h>>

\* the local rectangle of a record of original row o as section 4.5 has it
\* rotated: its range-axis coordinates shifted by +d when the parity is 0
StaggeredLocal(cs, o) ==
  IF StaggerParity(o) = 0
  THEN [j \in 1..4 |-> <<cs[j][1] + staggerM, cs[j][2]>>]
  ELSE cs

\* C14: with a stagger spec, the rotated polygon of every record, unbuffered
\* and buffered, is the main transform with Theta about A of its local
\* rectangle, shifted by +d along the range axis when the parity of its
\* original row is 0 and unshifted otherwise, whatever the quadrant of the
\* AB line.
C14_StaggerTransform ==
  (RotationDone /\ args.stagger # <<>>) =>
    \A i \in DOMAIN PlotsAdjustedM :
      /\ PlotsAdjustedM[i].corners =
           [j \in 1..4 |->
              MainTransform(StaggeredLocal(PlotsSquareM[i].corners,
                                           PlotsSquareM[i].OrigRow)[j])]
      /\ PlotsAdjustedMBuf[i].corners =
           [j \in 1..4 |->
              MainTransform(StaggeredLocal(PlotsSquareMBuf[i].corners,
                                           PlotsSquareM[i].OrigRow)[j])]

\* twice the signed area of the triangle a, b, p; every coordinate
\* difference is a whole number of tenths of the unit, and is counted in them
Cross(a, b, p) ==
  LET u == Meters(1)
  IN ((b[1] - a[1]) \div u) * ((p[2] - a[2]) \div u)
       - ((b[2] - a[2]) \div u) * ((p[1] - a[1]) \div u)

\* the point p lies in the quadrilateral q (corners in order), its border
\* included
InsideQuad(p, q) ==
  /\ \A x \in 1..2 :
       /\ \E j \in 1..4 : q[j][x] <= p[x]
       /\ \E j \in 1..4 : q[j][x] >= p[x]
  /\ \/ \A j \in 1..4 : Cross(q[j], q[(j % 4) + 1], p) >= 0
     \/ \A j \in 1..4 : Cross(q[j], q[(j % 4) + 1], p) <= 0

Nested(inner, outer) == \A j \in 1..4 : InsideQuad(inner[j], outer)

\* equal centres: equal sums of the four corners
SameCentre(a, b) ==
  \A x \in 1..2 :
    a[1][x] + a[2][x] + a[3][x] + a[4][x] = b[1][x] + b[2][x] + b[3][x] + b[4][x]

BuffersBelowHalf ==
  2 * RangeBufferM < RangeSpacingM /\ 2 * RowBufferM < RowSpacingM

\* C15: with both buffers below half their spacing, every buffered
\* rectangle is nested in the unbuffered rectangle it is paired with and has
\* the same centre, in the pair of matrices handed to the square renderer and
\* in the rotated pair handed to the exporter.
C15_BufferNested ==
  BuffersBelowHalf =>
    /\ \A f \in files :
         (f.kind = "Square_plots.pdf") =>
           \A i \in DOMAIN f.plots :
             /\ Nested(f.bufs[i].corners, f.plots[i].corners)
             /\ SameCentre(f.bufs[i].corners, f.plots[i].corners)
    /\ (pc \in {"write", "done"}) =>
         \A i \in DOMAIN PlotsAdjustedM :
           /\ Nested(PlotsAdjustedMBuf[i].corners, PlotsAdjustedM[i].corners)
           /\ SameCentre(PlotsAdjustedMBuf[i].corners, PlotsAdjustedM[i].corners)

\* the number of positions of (M, names) holding the pair (rec, name)
PairCount(M, names, rec, name) ==
  Cardinality({j \in DOMAIN M : M[j] = rec /\ names[j] = name})

\* C16: the serpentine block only reorders: the (record, label) pairs after
\* it are a permutation of the pairs before it, none dropped and none
\* duplicated, and there are as many labels as records.
C16_SerpentinePermutes ==
  [][(pc = "serpentine") =>
       /\ Len(PlotsSquareM') = Len(PlotsSquareM)
       /\ Len(row_names') = Len(PlotsSquareM')
       /\ \A i \in DOMAIN PlotsSquareM :
            PairCount(PlotsSquareM', row_names', PlotsSquareM[i], row_names[i])
              = PairCount(PlotsSquareM, row_names, PlotsSquareM[i], row_names[i])]_vars

\* the plot groups of the sorted table have nrowplot rows each
GroupsOfNRowPlot ==
  /\ infile # <<>>
  /\ \A j \in DOMAIN infile :
       Cardinality({x \in DOMAIN infile : infile[x].Plot = infile[j].Plot})
         = args.nrowplot

\* C17: a call with plotsubset > 0 that passes validation, on a non-empty
\* table whose plot groups have nrowplot rows each, keeps at least one record
\* of every plot group in the subsetting block, ends without an exception,
\* and exports non-empty sets.
C17_SubsetKeepsPolygons ==
  (args.plotsubset > 0 /\ GroupsOfNRowPlot) =>
    /\ (pc = "serpentine") =>
         \A j \in DOMAIN infile :
           \E i \in DOMAIN PlotsSquareM : PlotsSquareM[i].Plot = infile[j].Plot
    /\ (pc = "error") => err \in ValidationErrors
    /\ (pc = "done") =>
         \A f \in files : (f.kind \in {".shp", "_buff.shp"}) => f.geometry # <<>>

====
